---- MODULE Spec2Model ----
(***************************************************************************)
(* SmartPOS: the sale-creation transaction (sales/serializers.py,          *)
(* sales/views.py), the inventory writers (products/models.py,             *)
(* products/views.py), the sale query side with its statistics             *)
(* (sales/views.py) and the deletion of users (users/views.py).            *)
(*                                                                         *)
(* Money is counted in cents (the DecimalFields have decimal_places=2).    *)
(* The amounts of the model stay far below the ten digits of the fields,   *)
(* so no amount is refused for its size; a write that fails for any other  *)
(* reason is the step DatabaseError.                                       *)
(*                                                                         *)
(* The sales app reads and writes the product's stock and price columns    *)
(* as stock_quantity / selling_price, products/models.py declares them as  *)
(* quantity_in_stock / unit_price; the model has one stock column and one  *)
(* price column per product.                                               *)
(*                                                                         *)
(* Database: the committed rows are products, quantity_in_stock,           *)
(* unit_price and sales.  A request inside transaction.atomic keeps its    *)
(* uncommitted rows in txSale / txItems / txStock and holds the row locks  *)
(* it took with select_for_update (lockOwner) until it commits or rolls    *)
(* back.  SaleSerializer.validate runs before the atomic block of create:  *)
(* its select_for_update waits for the row to be free, reads the committed *)
(* row and keeps no lock.                                                  *)
(***************************************************************************)
EXTENDS Integers, Sequences, FiniteSets, TLC

(* ---- bounds of the model ---- *)
NumProcs == 2
NumRace == 3
NumProducts == 2
NumUsers == 3
MaxLines == 2
MaxQty == 2
MaxStock == 2
MaxCalls == 2
MaxEdits == 2
MaxUserEdits == 3
NumTxnIds == 3
MaxDay == 1
NumStatUsers == 6
MaxPerCashier == 2

(* ---- constants of the program ---- *)
MaxItems == 100
MinPrice == 1
MinQuantity == 1
MinStock == 0
MethodNotAllowed == 405
DefaultDays == 30
UuidDigits == 32
IdDigits == 12
TopCashiers == 5

NoValue == 0 - 1

Procs == 1..NumProcs
RaceProcs == 1..NumRace
ProductIds == 1..NumProducts
Users == 1..NumUsers
TxnIds == 1..NumTxnIds
StatUsers == 1..NumStatUsers

VARIABLES
    products,           \* ids of the committed Product rows
    quantity_in_stock,  \* committed Product.quantity_in_stock, per product id
    unit_price,         \* committed Product.unit_price in cents, per product id
    sales,              \* committed Sale rows with their SaleItems, in insertion order
    role,               \* User.role, per user
    is_staff,           \* User.is_staff, per user
    is_superuser,       \* User.is_superuser, per user
    now,                \* the current day (timezone.now().date())
    lockOwner,          \* per product id: the request holding its row lock, or 0
    pc,                 \* per request slot: position in SaleViewSet.create
    caller,             \* request.user of the request
    body_cashier,       \* the 'cashier' field of the request body
    lines,              \* validated_data['items'] of the request
    idx,                \* index of the line the loop is at
    txSale,             \* the uncommitted Sale row of the request
    txItems,            \* the uncommitted SaleItem rows of the request
    txStock,            \* the uncommitted stock writes of the request
    total_amount,       \* the local total_amount of SaleSerializer.create
    result,             \* the response of the request
    saleOf,             \* index in sales of the sale the request created, or 0
    instance,           \* a Product instance loaded in memory by an inventory writer
    editResult,         \* outcome of the last inventory write
    saleResponse,       \* response of the last update / delete request on a Sale
    statsResponse,      \* response of the last statistics request
    userResponse,       \* response of the last request on the users endpoints
    productResponse,    \* response of the last read request on the products endpoints
    request_user,       \* per user: the role of request.user, as loaded when the
                        \* user's pending users-endpoint request was authenticated
    first_name,         \* User.first_name, per user
    users,              \* ids of the committed User rows
    stock0,             \* the quantity_in_stock of each product in the initial state
    calls,              \* number of createSale requests received
    edits               \* number of inventory-writer and user-delete steps taken

dbVars == <<products, quantity_in_stock, unit_price, sales>>
userVars == <<role, is_staff, is_superuser, stock0, users, first_name>>
txVars == <<txSale, txItems, txStock, total_amount>>
reqVars == <<pc, caller, body_cashier, lines, idx, result, saleOf>>
editVars == <<instance, editResult>>
respVars == <<saleResponse, statsResponse, userResponse, productResponse,
              request_user>>
vars == <<products, quantity_in_stock, unit_price, sales, role, is_staff,
          is_superuser, now, lockOwner, pc, caller, body_cashier, lines, idx,
          txSale, txItems, txStock, total_amount, result, saleOf, instance,
          editResult, saleResponse, statsResponse, userResponse, productResponse,
          request_user, first_name, users, stock0, calls, edits>>

(* ---- records ---- *)
Line(p, q, pr) == [product_id |-> p, quantity |-> q, price_at_sale |-> pr]
Item(p, q, pr) == [product |-> p, quantity |-> q, price_at_sale |-> pr]
NoSale == [cashier |-> NoValue, transaction_id |-> NoValue, sale_date |-> NoValue]
Response(kind, product, available, requested) ==
    [kind |-> kind, product |-> product, available |-> available,
     requested |-> requested]
NoResponse == Response("none", NoValue, NoValue, NoValue)
Success == Response("success", NoValue, NoValue, NoValue)
Invalid == Response("invalid", NoValue, NoValue, NoValue)
NotFound(p) == Response("not_found", p, NoValue, NoValue)
NoSaleResponse == [action |-> "none", user |-> NoValue, sale |-> NoValue, status |-> NoValue]
NoRole == "absent"
NoUserResponse ==
    [action |-> "none", user |-> NoValue, target |-> NoValue, status |-> "none"]
UserResponse(action, u, target, status) ==
    [action |-> action, user |-> u, target |-> target, status |-> status]
NoProductResponse ==
    [action |-> "none", user |-> NoValue, status |-> "none", count |-> NoValue,
     products |-> {}]
NoInstance == [id |-> NoValue, quantity_in_stock |-> NoValue, unit_price |-> NoValue]
NoTxStock == [i \in ProductIds |-> NoValue]
Ratio(n, d) == [num |-> n, den |-> d]
NoStatistics ==
    [user |-> NoValue, status |-> "none", total_sales |-> NoValue, total_revenue |-> NoValue,
     total_items_sold |-> NoValue, average_sale_value |-> Ratio(0, 1),
     top_cashiers |-> <<>>, period_days |-> NoValue]

subtotal_PriceOnly(item) == item.price_at_sale

(* SaleItem.subtotal *)
subtotal(item) == item.quantity * item.price_at_sale

RECURSIVE SoldQuantity(_, _)
SoldQuantity(items, p) ==
    IF items = <<>> THEN 0
    ELSE (IF Head(items).product = p THEN Head(items).quantity ELSE 0)
         + SoldQuantity(Tail(items), p)

RECURSIVE TotalSold(_, _)
TotalSold(ss, p) ==
    IF ss = <<>> THEN 0
    ELSE SoldQuantity(Head(ss).items, p) + TotalSold(Tail(ss), p)

(* ---- users ---- *)
(* user 1: registered through RegisterView with role admin (is_staff keeps
   its default False); user 2: created with create_superuser (role keeps its
   default 'cashier'); user 3: a plain cashier; user 4: an admin that is also
   staff. *)
InitRole(u) == IF u % 4 \in {0, 1} THEN "admin" ELSE "cashier"
InitStaff(u) == u % 4 \in {0, 2}
InitSuperuser(u) == u % 4 = 2

InitStock(i) == MaxStock
InitPrice(i) == 250 + i

InitRequests(PS) ==
    /\ lockOwner = [i \in ProductIds |-> 0]
    /\ pc = [p \in PS |-> "idle"]
    /\ caller = [p \in PS |-> NoValue]
    /\ body_cashier = [p \in PS |-> NoValue]
    /\ lines = [p \in PS |-> <<>>]
    /\ idx = [p \in PS |-> 0]
    /\ txSale = [p \in PS |-> NoSale]
    /\ txItems = [p \in PS |-> <<>>]
    /\ txStock = [p \in PS |-> NoTxStock]
    /\ total_amount = [p \in PS |-> 0]
    /\ result = [p \in PS |-> NoResponse]
    /\ saleOf = [p \in PS |-> 0]

InitData ==
    /\ products = ProductIds
    /\ unit_price = [i \in ProductIds |-> InitPrice(i)]
    /\ sales = <<>>
    /\ users = Users
    /\ role = [u \in Users |-> InitRole(u)]
    /\ is_staff = [u \in Users |-> InitStaff(u)]
    /\ is_superuser = [u \in Users |-> InitSuperuser(u)]
    /\ now = 0
    /\ instance = NoInstance
    /\ editResult = "none"
    /\ saleResponse = NoSaleResponse
    /\ statsResponse = NoStatistics
    /\ userResponse = NoUserResponse
    /\ productResponse = NoProductResponse
    /\ request_user = [u \in Users |-> "none"]
    /\ first_name = [u \in Users |-> 0]
    /\ calls = 0
    /\ edits = 0

Init ==
    /\ InitData
    /\ quantity_in_stock = [i \in ProductIds |-> InitStock(i)]
    /\ stock0 = quantity_in_stock
    /\ InitRequests(Procs)

(* ---- SaleViewSet.create: serializer.is_valid ---- *)

(* the field validators of SaleItemSerializer: quantity (MinValueValidator(1)),
   price_at_sale (optional here, MinValueValidator(0.01)) and
   validate_product_id *)
ValidLine(l) ==
    /\ l.quantity >= MinQuantity
    /\ l.price_at_sale # NoValue => l.price_at_sale >= MinPrice
    /\ l.product_id \in products

validate_items_NoMaximum(n) == n > 0

(* SaleSerializer.validate_items; n is the number of items of the body *)
validate_items(n) == n > 0 /\ n <= MaxItems

(* 'cashier' is a writable field of SaleSerializer.Meta: the body must name an
   existing user *)
ValidCashier(bc) == bc \in users

has_permission_Anyone(u) == TRUE

(* SalePermission.has_permission: the caller must be authenticated; the
   anonymous caller is NoValue, and the token of a deleted user no longer
   authenticates *)
has_permission(u) == u \in users

(* SaleViewSet.create up to serializer.is_valid: the permission check of the
   view, then the field validators *)
Start(p, u, bc, ls) ==
    /\ pc[p] = "idle"
    /\ calls' = calls + 1
    /\ caller' = [caller EXCEPT ![p] = u]
    /\ body_cashier' = [body_cashier EXCEPT ![p] = bc]
    /\ saleOf' = [saleOf EXCEPT ![p] = 0]
    /\ IF ~has_permission(u)
       THEN /\ result' = [result EXCEPT ![p] =
                   Response("not_authenticated", NoValue, NoValue, NoValue)]
            /\ idx' = [idx EXCEPT ![p] = 0]
            /\ UNCHANGED <<pc, lines>>
       ELSE IF /\ ValidCashier(bc)
               /\ \A k \in 1..Len(ls) : ValidLine(ls[k])
               /\ validate_items(Len(ls))
       THEN /\ pc' = [pc EXCEPT ![p] = "validate"]
            /\ lines' = [lines EXCEPT ![p] = ls]
            /\ idx' = [idx EXCEPT ![p] = 1]
            /\ result' = [result EXCEPT ![p] = NoResponse]
       ELSE /\ result' = [result EXCEPT ![p] = Invalid]
            /\ idx' = [idx EXCEPT ![p] = 0]
            /\ UNCHANGED <<pc, lines>>
    /\ UNCHANGED <<dbVars, userVars, now, lockOwner, txVars, editVars, respVars,
                   edits>>

SufficientStock_Positive(available, quantity) == available > 0

(* the stock check of validate (line 89) and of create (line 124) *)
SufficientStock(available, quantity) == available >= quantity

(* SaleSerializer.validate, one iteration of its loop *)
ValidateLine(p) ==
    /\ pc[p] = "validate"
    /\ LET l == lines[p][idx[p]]
           i == l.product_id
       IN IF i \notin products
          THEN /\ result' = [result EXCEPT ![p] = NotFound(i)]
               /\ pc' = [pc EXCEPT ![p] = "idle"]
               /\ lines' = [lines EXCEPT ![p] = <<>>]
               /\ UNCHANGED idx
          ELSE /\ lockOwner[i] = 0
               /\ IF ~SufficientStock(quantity_in_stock[i], l.quantity)
                  THEN /\ result' = [result EXCEPT ![p] =
                              Response("insufficient_stock", i,
                                       quantity_in_stock[i], l.quantity)]
                       /\ pc' = [pc EXCEPT ![p] = "idle"]
                       /\ lines' = [lines EXCEPT ![p] = <<>>]
                       /\ UNCHANGED idx
                  ELSE /\ lines' = [lines EXCEPT ![p][idx[p]].price_at_sale =
                              IF l.price_at_sale = NoValue THEN unit_price[i]
                              ELSE l.price_at_sale]
                       /\ IF idx[p] = Len(lines[p])
                          THEN /\ pc' = [pc EXCEPT ![p] = "create"]
                               /\ UNCHANGED idx
                          ELSE /\ idx' = [idx EXCEPT ![p] = idx[p] + 1]
                               /\ UNCHANGED pc
                       /\ UNCHANGED result
    /\ UNCHANGED <<dbVars, userVars, now, lockOwner, caller, body_cashier, saleOf,
                   txVars, editVars, respVars, calls, edits>>

(* ---- SaleViewSet.perform_create and SaleSerializer.create ---- *)

SavedCashier_FromBody(p) == body_cashier[p]

(* serializer.save(cashier=self.request.user): the keyword overrides
   validated_data['cashier'] *)
SavedCashier(p) == caller[p]

RolledBackStock_NotAtomic(p) ==
    [i \in ProductIds |->
        IF txStock[p][i] # NoValue THEN txStock[p][i] ELSE quantity_in_stock[i]]

(* what the database holds after the atomic block of create is left by an
   exception *)
RolledBackStock(p) == quantity_in_stock

(* what the database holds after the atomic block of create is left normally *)
CommittedStock(p) ==
    [i \in ProductIds |->
        IF txStock[p][i] # NoValue THEN txStock[p][i] ELSE quantity_in_stock[i]]

(* leaving transaction.atomic: the row locks of the request are released *)
Released(p) == [i \in ProductIds |-> IF lockOwner[i] = p THEN 0 ELSE lockOwner[i]]

Rollback(p, res) ==
    /\ quantity_in_stock' = RolledBackStock(p)
    /\ lockOwner' = Released(p)
    /\ txSale' = [txSale EXCEPT ![p] = NoSale]
    /\ txItems' = [txItems EXCEPT ![p] = <<>>]
    /\ txStock' = [txStock EXCEPT ![p] = NoTxStock]
    /\ total_amount' = [total_amount EXCEPT ![p] = 0]
    /\ result' = [result EXCEPT ![p] = res]
    /\ pc' = [pc EXCEPT ![p] = "idle"]
    /\ lines' = [lines EXCEPT ![p] = <<>>]
    /\ UNCHANGED <<products, unit_price, sales>>

CreateBegin_Autocommit(p, t) ==
    /\ pc[p] = "create"
    /\ txSale' = [txSale EXCEPT ![p] =
           [cashier |-> caller[p], transaction_id |-> t, sale_date |-> now]]
    /\ sales' = Append(sales,
           [cashier |-> caller[p], transaction_id |-> t, sale_date |-> now,
            total_amount |-> 0, items |-> <<>>])
    /\ total_amount' = [total_amount EXCEPT ![p] = 0]
    /\ pc' = [pc EXCEPT ![p] = "items"]
    /\ idx' = [idx EXCEPT ![p] = 1]
    /\ UNCHANGED <<products, quantity_in_stock, unit_price, lockOwner, txItems,
                   txStock, result, lines>>
    /\ UNCHANGED <<userVars, now, caller, body_cashier, saleOf, editVars, respVars,
                   calls, edits>>

(* Sale.objects.create of SaleSerializer.create: Sale.save draws the transaction id t
   and inserts the row; transaction_id is unique and cashier is a foreign
   key to an existing user *)
CreateBegin(p, t) ==
    /\ pc[p] = "create"
    /\ \A q \in DOMAIN pc \ {p} : txSale[q].transaction_id # t
    /\ IF \E k \in 1..Len(sales) : sales[k].transaction_id = t
       THEN /\ Rollback(p, Response("duplicate_transaction_id", NoValue, NoValue, NoValue))
            /\ UNCHANGED idx
       ELSE IF SavedCashier(p) \notin users
       THEN /\ Rollback(p, Response("database_error", NoValue, NoValue, NoValue))
            /\ UNCHANGED idx
       ELSE /\ txSale' = [txSale EXCEPT ![p] =
                   [cashier |-> SavedCashier(p), transaction_id |-> t,
                    sale_date |-> now]]
            /\ total_amount' = [total_amount EXCEPT ![p] = 0]
            /\ pc' = [pc EXCEPT ![p] = "items"]
            /\ idx' = [idx EXCEPT ![p] = 1]
            /\ UNCHANGED <<dbVars, lockOwner, txItems, txStock, result, lines>>
    /\ UNCHANGED <<userVars, now, caller, body_cashier, saleOf, editVars, respVars,
                   calls, edits>>

StockUnderLock_Committed(p, i) == quantity_in_stock[i]

(* the row read by Product.objects.select_for_update().get(id=product_id)
   inside the atomic block: the request's own write if it made one *)
StockUnderLock(p, i) ==
    IF txStock[p][i] # NoValue THEN txStock[p][i] ELSE quantity_in_stock[i]

LockFree_NoLock(p, i) == TRUE

(* the row lock select_for_update needs before it returns *)
LockFree(p, i) == lockOwner[i] \in {0, p}

(* SaleSerializer.create, one iteration of its loop *)
CreateLine(p) ==
    /\ pc[p] = "items"
    /\ LET l == lines[p][idx[p]]
           i == l.product_id
       IN IF i \notin products
          THEN /\ Rollback(p, NotFound(i))
               /\ UNCHANGED idx
          ELSE /\ LockFree(p, i)
               /\ IF ~SufficientStock(StockUnderLock(p, i), l.quantity)
                  THEN /\ Rollback(p, Response("insufficient_stock", i,
                                               StockUnderLock(p, i), NoValue))
                       /\ UNCHANGED idx
                  ELSE /\ lockOwner' = [lockOwner EXCEPT ![i] = p]
                       /\ txItems' = [txItems EXCEPT ![p] =
                              Append(@, Item(i, l.quantity, l.price_at_sale))]
                       /\ txStock' = [txStock EXCEPT ![p][i] =
                              StockUnderLock(p, i) - l.quantity]
                       /\ total_amount' = [total_amount EXCEPT ![p] =
                              @ + subtotal(Item(i, l.quantity, l.price_at_sale))]
                       /\ IF idx[p] = Len(lines[p])
                          THEN /\ pc' = [pc EXCEPT ![p] = "commit"]
                               /\ UNCHANGED idx
                          ELSE /\ idx' = [idx EXCEPT ![p] = idx[p] + 1]
                               /\ UNCHANGED pc
                       /\ UNCHANGED <<dbVars, txSale, result, lines>>
    /\ UNCHANGED <<userVars, now, caller, body_cashier, saleOf, editVars, respVars,
                   calls, edits>>

(* sale.total_amount = total_amount; sale.save(update_fields=['total_amount'])
   and the end of the atomic block *)
Commit(p) ==
    /\ pc[p] = "commit"
    /\ sales' = Append(sales,
           [cashier |-> txSale[p].cashier,
            transaction_id |-> txSale[p].transaction_id,
            sale_date |-> txSale[p].sale_date,
            total_amount |-> total_amount[p],
            items |-> txItems[p]])
    /\ quantity_in_stock' = CommittedStock(p)
    /\ lockOwner' = Released(p)
    /\ txSale' = [txSale EXCEPT ![p] = NoSale]
    /\ txItems' = [txItems EXCEPT ![p] = <<>>]
    /\ txStock' = [txStock EXCEPT ![p] = NoTxStock]
    /\ total_amount' = [total_amount EXCEPT ![p] = 0]
    /\ result' = [result EXCEPT ![p] = Success]
    /\ saleOf' = [saleOf EXCEPT ![p] = Len(sales) + 1]
    /\ pc' = [pc EXCEPT ![p] = "idle"]
    /\ lines' = [lines EXCEPT ![p] = <<>>]
    /\ UNCHANGED <<products, unit_price>>
    /\ UNCHANGED <<userVars, now, caller, body_cashier, idx, editVars, respVars,
                   calls, edits>>

(* an ORM call inside the atomic block raises (the database refuses or loses
   the write): the exception leaves the block and the view answers 400 *)
DatabaseError(p) ==
    /\ pc[p] \in {"items", "commit"}
    /\ Rollback(p, Response("database_error", NoValue, NoValue, NoValue))
    /\ UNCHANGED <<userVars, now, caller, body_cashier, idx, saleOf, editVars,
                   respVars, calls, edits>>

(* ---- inventory writers: products/models.py, products/views.py ---- *)

(* Product.objects.get(id=i), or get_object of ProductViewSet: a Product
   instance in memory, a copy of the committed row *)
LoadProduct(i) ==
    /\ i \in products
    /\ instance' = [id |-> i, quantity_in_stock |-> quantity_in_stock[i],
                    unit_price |-> unit_price[i]]
    /\ editResult' = "loaded"
    /\ edits < MaxEdits
    /\ edits' = edits + 1
    /\ UNCHANGED <<dbVars, userVars, now, lockOwner, reqVars, txVars, respVars, calls>>

CanDecrease_NoStockCheck(have, quantity) == quantity > 0

(* the guard of Product.decrease_stock *)
CanDecrease(have, quantity) == quantity > 0 /\ have >= quantity

Decreased_ByOne(have, quantity) == have - 1

(* self.quantity_in_stock -= quantity *)
Decreased(have, quantity) == have - quantity

(* Product.decrease_stock(quantity) on the loaded instance;
   save(update_fields=...) is an UPDATE of the row: it waits for the row lock
   and raises when the row is gone *)
decrease_stock(quantity) ==
    /\ instance # NoInstance
    /\ IF ~CanDecrease(instance.quantity_in_stock, quantity)
       THEN /\ editResult' = IF quantity <= 0 THEN "not_positive" ELSE "insufficient"
            /\ UNCHANGED <<instance, dbVars>>
       ELSE /\ lockOwner[instance.id] = 0
            /\ instance' = [instance EXCEPT !.quantity_in_stock = Decreased(@, quantity)]
            /\ IF instance.id \in products
               THEN /\ quantity_in_stock' = [quantity_in_stock EXCEPT
                           ![instance.id] =
                               Decreased(instance.quantity_in_stock, quantity)]
                    /\ editResult' = "saved"
               ELSE /\ editResult' = "error"
                    /\ UNCHANGED quantity_in_stock
            /\ UNCHANGED <<products, unit_price, sales>>
    /\ edits < MaxEdits
    /\ edits' = edits + 1
    /\ UNCHANGED <<userVars, now, lockOwner, reqVars, txVars, respVars, calls>>

(* Product.increase_stock(quantity) on the loaded instance *)
increase_stock(quantity) ==
    /\ instance # NoInstance
    /\ instance.quantity_in_stock + quantity <= MaxStock
    /\ IF quantity <= 0
       THEN /\ editResult' = "not_positive"
            /\ UNCHANGED <<instance, dbVars>>
       ELSE /\ lockOwner[instance.id] = 0
            /\ instance' = [instance EXCEPT !.quantity_in_stock = @ + quantity]
            /\ IF instance.id \in products
               THEN /\ quantity_in_stock' = [quantity_in_stock EXCEPT
                           ![instance.id] = instance.quantity_in_stock + quantity]
                    /\ editResult' = "saved"
               ELSE /\ editResult' = "error"
                    /\ UNCHANGED quantity_in_stock
            /\ UNCHANGED <<products, unit_price, sales>>
    /\ edits < MaxEdits
    /\ edits' = edits + 1
    /\ UNCHANGED <<userVars, now, lockOwner, reqVars, txVars, respVars, calls>>

MayWriteProducts_Anyone(u) == TRUE

(* IsAdminOrReadOnly.has_permission for a write *)
MayWriteProducts(u) == role[u] = "admin"

(* ProductSerializer.validate_quantity_in_stock *)
validate_quantity_in_stock(value) == value >= MinStock

(* ProductSerializer.validate_unit_price *)
validate_unit_price(value) == value > 0

(* ProductViewSet.update / partial_update by user u on the instance that
   get_object loaded: q and pr are the body's quantity_in_stock and unit_price
   (NoValue: the field is absent). serializer.save() writes every column of
   the instance; an UPDATE that finds no row is followed by an INSERT. *)
UpdateProduct(u, q, pr) ==
    /\ instance # NoInstance
    /\ IF ~MayWriteProducts(u)
       THEN /\ editResult' = "forbidden"
            /\ UNCHANGED <<instance, dbVars>>
       ELSE IF \/ (q # NoValue /\ ~validate_quantity_in_stock(q))
               \/ (pr # NoValue /\ ~validate_unit_price(pr))
       THEN /\ editResult' = "invalid"
            /\ UNCHANGED <<instance, dbVars>>
       ELSE /\ lockOwner[instance.id] = 0
            /\ LET new == [id |-> instance.id,
                           quantity_in_stock |->
                               IF q # NoValue THEN q ELSE instance.quantity_in_stock,
                           unit_price |->
                               IF pr # NoValue THEN pr ELSE instance.unit_price]
               IN /\ instance' = new
                  /\ products' = products \cup {new.id}
                  /\ quantity_in_stock' = [quantity_in_stock EXCEPT
                         ![new.id] = new.quantity_in_stock]
                  /\ unit_price' = [unit_price EXCEPT ![new.id] = new.unit_price]
            /\ editResult' = "saved"
            /\ UNCHANGED sales
    /\ edits < MaxEdits
    /\ edits' = edits + 1
    /\ UNCHANGED <<userVars, now, lockOwner, reqVars, txVars, respVars, calls>>

(* ProductViewSet.create by user u: a new Product row in the free slot i with
   the body's quantity_in_stock q and unit_price pr (both required). The
   slot of a deleted product stands for the id of the new row. *)
CreateProduct(u, i, q, pr) ==
    /\ i \notin products
    /\ IF ~MayWriteProducts(u)
       THEN /\ editResult' = "forbidden"
            /\ UNCHANGED dbVars
       ELSE IF ~validate_quantity_in_stock(q) \/ ~validate_unit_price(pr)
       THEN /\ editResult' = "invalid"
            /\ UNCHANGED dbVars
       ELSE /\ products' = products \cup {i}
            /\ quantity_in_stock' = [quantity_in_stock EXCEPT ![i] = q]
            /\ unit_price' = [unit_price EXCEPT ![i] = pr]
            /\ editResult' = "created"
            /\ UNCHANGED sales
    /\ edits < MaxEdits
    /\ edits' = edits + 1
    /\ UNCHANGED <<instance, userVars, now, lockOwner, reqVars, txVars, respVars,
                   calls>>

(* Product.low_stock_threshold: the default of the field *)
DefaultThreshold == 5
low_stock_threshold(i) == DefaultThreshold

(* Product.is_low_stock, and the filter of the low-stock report *)
is_low_stock(i) == quantity_in_stock[i] <= low_stock_threshold(i)

ProductResponse(action, u, status, rows) ==
    [action |-> action, user |-> u, status |-> status,
     count |-> Cardinality(rows), products |-> rows]

(* ProductViewSet.low_stock by user u *)
low_stock(u) ==
    /\ productResponse' =
          IF u \notin users
          THEN ProductResponse("low_stock", u, "not_authenticated", {})
          ELSE IF role[u] # "admin"
          THEN ProductResponse("low_stock", u, "forbidden", {})
          ELSE ProductResponse("low_stock", u, "ok",
                               {i \in products : is_low_stock(i)})
    /\ UNCHANGED <<dbVars, userVars, now, lockOwner, reqVars, txVars, editVars,
                   saleResponse, statsResponse, userResponse, request_user,
                   calls, edits>>

(* ProductViewSet.list by user u: a safe method, open to every authenticated
   user *)
ListProducts(u) ==
    /\ productResponse' =
          IF u \notin users
          THEN ProductResponse("list", u, "not_authenticated", {})
          ELSE ProductResponse("list", u, "ok", products)
    /\ UNCHANGED <<dbVars, userVars, now, lockOwner, reqVars, txVars, editVars,
                   saleResponse, statsResponse, userResponse, request_user,
                   calls, edits>>

(* SaleItem.product is on_delete=PROTECT *)
Referenced(i) ==
    \E k \in 1..Len(sales) : \E n \in 1..Len(sales[k].items) :
        sales[k].items[n].product = i

(* ProductViewSet.destroy (ModelViewSet) by user u *)
DestroyProduct(u, i) ==
    /\ i \in products
    /\ IF ~MayWriteProducts(u)
       THEN /\ editResult' = "forbidden"
            /\ UNCHANGED dbVars
       ELSE IF Referenced(i)
       THEN /\ editResult' = "protected"
            /\ UNCHANGED dbVars
       ELSE /\ lockOwner[i] = 0
            /\ products' = products \ {i}
            /\ quantity_in_stock' = [quantity_in_stock EXCEPT ![i] = 0]
            /\ unit_price' = [unit_price EXCEPT ![i] = 0]
            /\ editResult' = "deleted"
            /\ UNCHANGED sales
    /\ edits < MaxEdits
    /\ edits' = edits + 1
    /\ UNCHANGED <<instance, userVars, now, lockOwner, reqVars, txVars, respVars,
                   calls>>

(* ---- UserViewSet.destroy: users/views.py ---- *)

(* JWT authentication of a request of user u on the users endpoints:
   request.user is loaded from the User row *)
Authenticate(u) ==
    /\ u \in users
    /\ request_user[u] = "none"
    /\ request_user' = [request_user EXCEPT ![u] = role[u]]
    /\ UNCHANGED <<dbVars, userVars, now, lockOwner, reqVars, txVars, editVars,
                   saleResponse, statsResponse, userResponse, productResponse, calls, edits>>

(* IsAdmin.has_permission: request.user.role == 'admin' *)
IsAdmin_Authenticated(u) == request_user[u] # "none"

IsAdmin(u) == request_user[u] = "admin"

ReferencedUser_Never(target) == FALSE

(* Sale.cashier is on_delete=PROTECT *)
ReferencedUser(target) == \E k \in 1..Len(sales) : sales[k].cashier = target

(* the answer to the authenticated request of user u *)
Respond(u, response) ==
    /\ userResponse' = response
    /\ request_user' = [request_user EXCEPT ![u] = "none"]

(* DELETE /api/users/<target>/ by the authenticated user u. The DELETE of the
   row waits for the transactions that hold an uncommitted Sale row
   referring to it. *)
DestroyUser(u, target) ==
    /\ request_user[u] # "none"
    /\ IF ~IsAdmin(u)
       THEN /\ Respond(u, UserResponse("destroy", u, target, "forbidden"))
            /\ UNCHANGED users
       ELSE IF target \notin users
       THEN /\ Respond(u, UserResponse("destroy", u, target, "not_found"))
            /\ UNCHANGED users
       ELSE IF target = u /\ request_user[u] = "admin"
       THEN /\ Respond(u, UserResponse("destroy", u, target, "own_account"))
            /\ UNCHANGED users
       ELSE IF ReferencedUser(target)
       THEN /\ Respond(u, UserResponse("destroy", u, target, "protected"))
            /\ UNCHANGED users
       ELSE /\ \A p \in DOMAIN pc : txSale[p].cashier # target
            /\ Respond(u, UserResponse("destroy", u, target, "deleted"))
            /\ users' = users \ {target}
    /\ edits < MaxUserEdits
    /\ edits' = edits + 1
    /\ UNCHANGED <<dbVars, role, is_staff, is_superuser, stock0, first_name, now,
                   lockOwner, reqVars, txVars, editVars, saleResponse, statsResponse,
                   productResponse, calls>>

(* UserSerializer.validate_role *)
validate_role(value) == value \in {"admin", "cashier"}

SelfDemotion_Never(u, target, r) == FALSE

(* the condition of UserSerializer.validate: r is attrs.get('role'), NoRole
   when the body has no role *)
SelfDemotion(u, target, r) ==
    target = u /\ role[target] = "admin" /\ r # "admin"

(* UserViewSet.update of user target by the authenticated user u; r and fn
   are the role and first_name of the body (NoRole, NoValue: absent). get_object
   loads the instance and instance.save() writes it back. *)
UpdateUserAs(action, u, target, r, fn) ==
    /\ request_user[u] # "none"
    /\ IF target \notin users
       THEN /\ Respond(u, UserResponse(action, u, target, "not_found"))
            /\ UNCHANGED <<role, first_name>>
       ELSE IF request_user[u] = "cashier" /\ target # u
       THEN /\ Respond(u, UserResponse(action, u, target, "forbidden"))
            /\ UNCHANGED <<role, first_name>>
       ELSE IF target = u /\ request_user[u] = "admin" /\ r = "cashier"
       THEN /\ Respond(u, UserResponse(action, u, target, "own_demotion"))
            /\ UNCHANGED <<role, first_name>>
       ELSE IF (r # NoRole /\ ~validate_role(r)) \/ SelfDemotion(u, target, r)
       THEN /\ Respond(u, UserResponse(action, u, target, "invalid"))
            /\ UNCHANGED <<role, first_name>>
       ELSE /\ Respond(u, UserResponse(action, u, target, "saved"))
            /\ role' = [role EXCEPT ![target] = IF r # NoRole THEN r ELSE @]
            /\ first_name' = [first_name EXCEPT ![target] = IF fn # NoValue THEN fn ELSE @]
    /\ edits < MaxUserEdits
    /\ edits' = edits + 1
    /\ UNCHANGED <<dbVars, is_staff, is_superuser, stock0, users, now, lockOwner,
                   reqVars, txVars, editVars, saleResponse, statsResponse, productResponse, calls>>

UpdateUser(u, target, r, fn) == UpdateUserAs("update", u, target, r, fn)

(* UserViewSet.partial_update: update with partial=True *)
PartialUpdateUser(u, target, r, fn) == UpdateUserAs("partial_update", u, target, r, fn)

(* RegisterView.create by the authenticated user u: a new user row with the
   role of the body, or the default role when the body has none. The user
   named in the body is new; a username that is taken fails the unique
   validator of the field. *)
RegisterUser(u, new, r) ==
    /\ request_user[u] # "none"
    /\ IF ~IsAdmin(u)
       THEN /\ Respond(u, UserResponse("register", u, new, "forbidden"))
            /\ UNCHANGED <<users, role, is_staff, is_superuser, first_name>>
       ELSE IF new \in users \/ (r # NoRole /\ ~validate_role(r))
       THEN /\ Respond(u, UserResponse("register", u, new, "invalid"))
            /\ UNCHANGED <<users, role, is_staff, is_superuser, first_name>>
       ELSE /\ Respond(u, UserResponse("register", u, new, "created"))
            /\ users' = users \cup {new}
            /\ role' = [role EXCEPT ![new] = IF r # NoRole THEN r ELSE "cashier"]
            /\ is_staff' = [is_staff EXCEPT ![new] = FALSE]
            /\ is_superuser' = [is_superuser EXCEPT ![new] = FALSE]
            /\ first_name' = [first_name EXCEPT ![new] = 0]
    /\ edits < MaxUserEdits
    /\ edits' = edits + 1
    /\ UNCHANGED <<dbVars, stock0, now, lockOwner, reqVars, txVars, editVars,
                   saleResponse, statsResponse, productResponse, calls>>

(* ---- the Sale endpoints that change nothing: sales/views.py ---- *)

SalesAfterWrite_Deleted(k) == SubSeq(sales, 1, k - 1) \o SubSeq(sales, k + 1, Len(sales))

(* the Sale rows after SaleViewSet.update, partial_update or destroy of the
   k-th sale *)
SalesAfterWrite(k) == sales

WriteSale(u, k, action) ==
    /\ u \in Users
    /\ k \in 1..Len(sales)
    /\ sales' = SalesAfterWrite(k)
    /\ saleResponse' = [action |-> action, user |-> u, sale |-> k,
                        status |-> MethodNotAllowed]
    /\ UNCHANGED <<products, quantity_in_stock, unit_price, userVars, now,
                   lockOwner, reqVars, txVars, editVars, statsResponse, userResponse,
                   request_user, productResponse, calls, edits>>

UpdateSale(u, k) == WriteSale(u, k, "update")
PartialUpdateSale(u, k) == WriteSale(u, k, "partial_update")
DestroySale(u, k) == WriteSale(u, k, "destroy")

(* a day passes *)
Tick ==
    /\ now < MaxDay
    /\ now' = now + 1
    /\ UNCHANGED <<dbVars, userVars, lockOwner, reqVars, txVars, editVars, respVars,
                   calls, edits>>

(* ---- the query side: sales/views.py, sales/filters.py, sales/permissions.py ---- *)

(* usernames as sequences of characters; user u is named <<r, u>> with r the
   letter of its role *)
Username(u) == <<IF InitRole(u) = "admin" THEN 100 ELSE 101, u>>

(* lookup_expr='icontains' *)
icontains(text, pattern) ==
    \E a \in 1..(Len(text) + 1) :
        /\ a + Len(pattern) - 1 <= Len(text)
        /\ SubSeq(text, a, a + Len(pattern) - 1) = pattern

(* SaleViewSet.get_queryset: the indexes of the visible sales *)
get_queryset(u) ==
    IF is_staff[u] \/ is_superuser[u]
    THEN 1..Len(sales)
    ELSE {k \in 1..Len(sales) : sales[k].cashier = u}

(* uuid.uuid4(): the 32 hexadecimal digits, as numbers, of the t-th value
   the generator can give; values of different t differ in their first two
   digits *)
uuid4(t) ==
    [k \in 1..UuidDigits |->
        ((IF k % 2 = 1 THEN t ELSE t \div 16) * 11 + 7 * k) % 16]

HexDigits ==
    <<"0", "1", "2", "3", "4", "5", "6", "7", "8", "9", "a", "b", "c", "d", "e", "f">>

(* .hex *)
hex(digits) == [k \in 1..Len(digits) |-> HexDigits[digits[k] + 1]]

upper_Unchanged(text) == text

(* .upper() *)
upper(text) ==
    [k \in 1..Len(text) |->
        CASE text[k] = "a" -> "A" [] text[k] = "b" -> "B" [] text[k] = "c" -> "C"
          [] text[k] = "d" -> "D" [] text[k] = "e" -> "E" [] text[k] = "f" -> "F"
          [] OTHER -> text[k]]

(* Sale.generate_transaction_id: f"TXN-{uuid.uuid4().hex[:12].upper()}" *)
generate_transaction_id(t) ==
    <<"T", "X", "N", "-">> \o upper(SubSeq(hex(uuid4(t)), 1, IdDigits))

(* the transaction_id column of a sale whose id came from the t-th value of
   the generator *)
TxnText(t) == generate_transaction_id(t)

(* SaleFilter; an absent parameter is NoValue (<<>> for a text) *)
SaleFilter(f, sale) ==
    /\ f.cashier # NoValue => sale.cashier = f.cashier
    /\ f.cashier_username # <<>> => icontains(Username(sale.cashier), f.cashier_username)
    /\ f.date # NoValue => sale.sale_date = f.date
    /\ f.start_date # NoValue => sale.sale_date >= f.start_date
    /\ f.end_date # NoValue => sale.sale_date <= f.end_date
    /\ f.min_amount # NoValue => sale.total_amount >= f.min_amount
    /\ f.max_amount # NoValue => sale.total_amount <= f.max_amount
    /\ f.transaction_id # <<>> => icontains(TxnText(sale.transaction_id), f.transaction_id)

(* SaleViewSet.list *)
list(u, f) == {k \in get_queryset(u) : SaleFilter(f, sales[k])}

(* SaleViewSet.today *)
today(u) == {k \in get_queryset(u) : sales[k].sale_date = now}

(* SalePermission.has_object_permission for a GET *)
has_object_permission(u, sale) ==
    is_staff[u] \/ is_superuser[u] \/ sale.cashier = u

(* SaleViewSet.retrieve of the k-th sale *)
retrieve(u, k) ==
    IF k \notin get_queryset(u) THEN "not_found"
    ELSE IF ~has_object_permission(u, sales[k]) THEN "forbidden"
    ELSE "ok"

(* ---- SaleViewSet.statistics ---- *)

(* Sale.objects.filter(sale_date__gte=start_date), start_date being
   timezone.now() - timedelta(days=days): the indexes of the sales of the
   period *)
PeriodSales(days) == {k \in 1..Len(sales) : sales[k].sale_date >= now - days}

(* aggregate(Sum('total_amount')) over the sales K *)
RECURSIVE SumTotalAmount(_)
SumTotalAmount(K) ==
    IF K = {} THEN 0
    ELSE LET k == CHOOSE x \in K : TRUE
         IN sales[k].total_amount + SumTotalAmount(K \ {k})

RECURSIVE SumQuantity(_)
SumQuantity(items) ==
    IF items = <<>> THEN 0 ELSE Head(items).quantity + SumQuantity(Tail(items))

(* SaleItem.objects.filter(sale__sale_date__gte=start_date)
   .aggregate(Sum('quantity')) *)
RECURSIVE SumItemsSold(_)
SumItemsSold(K) ==
    IF K = {} THEN 0
    ELSE LET k == CHOOSE x \in K : TRUE
         IN SumQuantity(sales[k].items) + SumItemsSold(K \ {k})

average_sale_value_SumOnly(total_revenue, total_sales) == Ratio(total_revenue, 1)

(* 'average_sale_value': Sum('total_amount') or 0 at first, replaced by
   total_revenue / total_sales when there are sales; the quotient is kept as
   a ratio *)
average_sale_value(total_revenue, total_sales) ==
    IF total_sales > 0 THEN Ratio(total_revenue, total_sales)
    ELSE Ratio(total_revenue, 1)

(* sales.values('cashier__username', ...).annotate(total_sales=Count('id'),
   total_revenue=Sum('total_amount')): one row per cashier of the sales K *)
CashierRows(K) ==
    {[cashier__username |-> Username(u),
      total_sales |-> Cardinality({k \in K : sales[k].cashier = u}),
      total_revenue |-> SumTotalAmount({k \in K : sales[k].cashier = u})] :
        u \in {sales[k].cashier : k \in K}}

(* order_by('-total_revenue'): every order of the rows by descending revenue
   (rows of equal revenue come in any order) *)
RECURSIVE order_by(_)
order_by(rows) ==
    IF rows = {} THEN {<<>>}
    ELSE UNION {{<<r>> \o rest : rest \in order_by(rows \ {r})} :
                   r \in {x \in rows :
                             \A y \in rows : y.total_revenue <= x.total_revenue}}

(* [:5] *)
FirstRows(rows, n) == SubSeq(rows, 1, IF Len(rows) < n THEN Len(rows) ELSE n)

StatisticsForbidden(u) == [NoStatistics EXCEPT !.user = u, !.status = "error"]

(* SaleViewSet.statistics for user u with query parameter days (NoValue:
   absent): the responses it can give *)
statistics(u, days) ==
    IF ~(is_staff[u] \/ is_superuser[u]) THEN {StatisticsForbidden(u)}
    ELSE LET d == IF days = NoValue THEN DefaultDays ELSE days
             K == PeriodSales(d)
             total_sales == Cardinality(K)
             total_revenue == SumTotalAmount(K)
         IN {[user |-> u,
              status |-> "success",
              total_sales |-> total_sales,
              total_revenue |-> total_revenue,
              total_items_sold |-> SumItemsSold(K),
              average_sale_value |-> average_sale_value(total_revenue, total_sales),
              top_cashiers |-> FirstRows(rows, TopCashiers),
              period_days |-> d] : rows \in order_by(CashierRows(K))}

(* GET /api/sales/statistics/ by the authenticated user u *)
Statistics(u, days) ==
    /\ u \in users
    /\ statsResponse' \in statistics(u, days)
    /\ UNCHANGED <<dbVars, userVars, now, lockOwner, reqVars, txVars, editVars,
                   saleResponse, userResponse, request_user, productResponse, calls, edits>>

(* ---- request bodies ---- *)
LineSet(quantities, prices) ==
    {Line(i, q, pr) : i \in ProductIds, q \in quantities, pr \in prices}

RECURSIVE SeqsUpTo(_, _)
SeqsUpTo(S, n) ==
    IF n = 0 THEN {<<>>}
    ELSE LET shorter == SeqsUpTo(S, n - 1)
         IN shorter \cup {Append(s, x) : s \in {t \in shorter : Len(t) = n - 1}, x \in S}

OverridePrice == 199

(* bodies of up to MaxLines lines without a price, one-line bodies with a
   price, the empty body and a body with a quantity of 0 *)
PlainBodies == SeqsUpTo(LineSet(1..MaxQty, {NoValue}), MaxLines)

(* a body of one line more than validate_items accepts *)
TooManyLines == [k \in 1..(MaxItems + 1) |-> Line(1, 1, NoValue)]

Bodies ==
    PlainBodies \cup {<<l>> : l \in LineSet(0..MaxQty, {OverridePrice})}
        \cup {TooManyLines}

(* the transaction ids in use, committed or not *)
UsedTxnIds ==
    {sales[k].transaction_id : k \in 1..Len(sales)}
        \cup {txSale[q].transaction_id : q \in DOMAIN pc}

(* a draw of uuid4 that collides with no id in use: the least unused id *)
Fresh(t) == t \notin UsedTxnIds /\ \A t2 \in TxnIds : t2 < t => t2 \in UsedTxnIds

SaleStep(p) ==
    \/ ValidateLine(p)
    \/ \E t \in TxnIds : Fresh(t) /\ CreateBegin(p, t)
    \/ CreateLine(p)
    \/ Commit(p)

(* the sale steps with any draw of the generator, colliding or not *)
NextIds ==
    \E p \in Procs :
        \/ calls < MaxCalls /\ Start(p, NumUsers, NumUsers, <<Line(1, 1, NoValue)>>)
        \/ ValidateLine(p)
        \/ \E t \in TxnIds : CreateBegin(p, t)
        \/ CreateLine(p)
        \/ Commit(p)

SpecIds == Init /\ [][NextIds]_vars

(* sales only, by one cashier: no other writer of the stock *)
NextSales ==
    \E p \in Procs :
        \/ \E ls \in Bodies : calls < MaxCalls /\ Start(p, NumUsers, NumUsers, ls)
        \/ SaleStep(p)

SpecSales == Init /\ [][NextSales]_vars

(* the same requests, each served by a worker that keeps running: a step of
   a request that stays possible is eventually taken *)
SpecLive == Init /\ [][NextSales]_vars /\ \A p \in Procs : WF_vars(SaleStep(p))

(* sales and every inventory writer *)
Next ==
    \/ \E p \in Procs :
        \/ \E ls \in PlainBodies : calls < MaxCalls /\ Start(p, NumUsers, NumUsers, ls)
        \/ SaleStep(p)
        \/ DatabaseError(p)
    \/ \E i \in ProductIds : LoadProduct(i)
    \/ \E q \in 0..MaxQty : decrease_stock(q)
    \/ \E q \in 0..1 : increase_stock(q)
    \/ \E u \in Users, q \in {NoValue, -1, 0}, pr \in {NoValue, 0} :
          UpdateProduct(u, q, pr)
    \/ \E u \in Users, i \in ProductIds : DestroyProduct(u, i)

Spec == Init /\ [][Next]_vars

(* NumRace concurrent requests for one unit of product 1, whose stock is any
   S < NumRace; every uuid4 draw is fresh *)
InitRace ==
    /\ InitData
    /\ \E S \in 0..(NumRace - 1) :
          quantity_in_stock = [i \in ProductIds |-> IF i = 1 THEN S ELSE InitStock(i)]
    /\ stock0 = quantity_in_stock
    /\ InitRequests(RaceProcs)

NextRace ==
    \E p \in RaceProcs :
        \/ result[p] = NoResponse /\ Start(p, NumUsers, NumUsers, <<Line(1, 1, NoValue)>>)
        \/ SaleStep(p)

SpecRace == InitRace /\ [][NextRace]_vars

(* one-line sales by every user with every cashier field, the Sale endpoints
   that change nothing, and the passing of days *)
NextAccess ==
    \/ \E p \in Procs :
        \/ \E u \in Users, bc \in Users \cup {NoValue} :
              calls < MaxCalls /\ Start(p, u, bc, <<Line(1, 1, NoValue)>>)
        \/ SaleStep(p)
    \/ \E u \in Users, k \in 1..MaxCalls : UpdateSale(u, k)
    \/ \E u \in Users, k \in 1..MaxCalls : PartialUpdateSale(u, k)
    \/ \E u \in Users, k \in 1..MaxCalls : DestroySale(u, k)
    \/ Tick

SpecAccess == Init /\ [][NextAccess]_vars

(* the j-th sale of cashier u in a shop that has been selling for
   MaxDay + 1 days: j units of one product, the first sale on one of those
   days, the later ones on the last day *)
SeedSale(u, j) ==
    LET i == (u % NumProducts) + 1
    IN [cashier |-> u, transaction_id |-> 0,
        sale_date |-> IF j = 1 THEN u % (MaxDay + 1) ELSE MaxDay,
        total_amount |-> j * InitPrice(i), items |-> <<Item(i, j, InitPrice(i))>>]

(* the sales of cashiers 1..u, cashier v having made c[v] of them *)
RECURSIVE SeedSales(_, _)
SeedSales(c, u) ==
    IF u = 0 THEN <<>>
    ELSE SeedSales(c, u - 1) \o [j \in 1..c[u] |-> SeedSale(u, j)]

(* every sale got its own value of the id generator *)
Numbered(ss) == [k \in 1..Len(ss) |-> [ss[k] EXCEPT !.transaction_id = k]]

(* a shop with NumStatUsers users on day MaxDay, each having made up to
   MaxPerCashier sales, with no request in progress *)
InitStats ==
    /\ products = ProductIds
    /\ unit_price = [i \in ProductIds |-> InitPrice(i)]
    /\ quantity_in_stock = [i \in ProductIds |-> InitStock(i)]
    /\ \E c \in [StatUsers -> 0..MaxPerCashier] :
          sales = Numbered(SeedSales(c, NumStatUsers))
    /\ stock0 = [i \in ProductIds |-> InitStock(i) + TotalSold(sales, i)]
    /\ users = StatUsers
    /\ role = [u \in StatUsers |-> InitRole(u)]
    /\ is_staff = [u \in StatUsers |-> InitStaff(u)]
    /\ is_superuser = [u \in StatUsers |-> InitSuperuser(u)]
    /\ now = MaxDay
    /\ instance = NoInstance
    /\ editResult = "none"
    /\ saleResponse = NoSaleResponse
    /\ statsResponse = NoStatistics
    /\ userResponse = NoUserResponse
    /\ productResponse = NoProductResponse
    /\ request_user = [u \in StatUsers |-> "none"]
    /\ first_name = [u \in StatUsers |-> 0]
    /\ calls = 0
    /\ edits = 0
    /\ InitRequests(Procs)

(* statistics requests by every user, for every period *)
NextStats ==
    \E u \in StatUsers, days \in {NoValue} \cup 0..MaxDay : Statistics(u, days)

SpecStats == InitStats /\ [][NextStats]_vars

(* one-line sales by every user while admins and cashiers ask to delete
   products and users *)
NextRefs ==
    \/ \E p \in Procs :
        \/ \E u \in Users, i \in ProductIds :
              calls < MaxCalls /\ Start(p, u, u, <<Line(i, 1, NoValue)>>)
        \/ SaleStep(p)
    \/ \E u \in Users, i \in ProductIds : DestroyProduct(u, i)
    \/ \E u \in Users : edits < MaxEdits /\ Authenticate(u)
    \/ \E u \in Users, target \in Users : edits < MaxEdits /\ DestroyUser(u, target)

SpecRefs == Init /\ [][NextRefs]_vars

(* the requests on the users endpoints, by every user on every user *)
NextUsers ==
    \/ \E u \in Users : edits < MaxUserEdits /\ Authenticate(u)
    \/ \E u \in Users, target \in Users, r \in {NoRole, "admin", "cashier", "manager"},
          fn \in {NoValue, 1} : UpdateUser(u, target, r, fn)
    \/ \E u \in Users, target \in Users, r \in {NoRole, "admin", "cashier", "manager"},
          fn \in {NoValue, 1} : PartialUpdateUser(u, target, r, fn)
    \/ \E u \in Users, target \in Users : DestroyUser(u, target)
    \/ \E u \in Users, new \in Users, r \in {NoRole, "admin", "manager"} :
          RegisterUser(u, new, r)

SpecUsers == Init /\ [][NextUsers]_vars

NewPrice == 300

(* sales of lines without a price, while an admin or a cashier edits the
   price of a product *)
NextPrice ==
    \/ \E p \in Procs :
        \/ \E ls \in PlainBodies : calls < MaxCalls /\ Start(p, NumUsers, NumUsers, ls)
        \/ SaleStep(p)
    \/ \E i \in ProductIds : LoadProduct(i)
    \/ \E u \in Users : UpdateProduct(u, NoValue, NewPrice)

SpecPrice == Init /\ [][NextPrice]_vars

(* the users endpoints when every request is issued by a user whose role is
   cashier when the request is authenticated *)
NextCashiers ==
    \/ \E u \in Users :
          edits < MaxUserEdits /\ role[u] = "cashier" /\ Authenticate(u)
    \/ \E u \in Users, target \in Users, r \in {NoRole, "admin", "cashier", "manager"},
          fn \in {NoValue, 1} : UpdateUser(u, target, r, fn)
    \/ \E u \in Users, target \in Users, r \in {NoRole, "admin", "cashier", "manager"},
          fn \in {NoValue, 1} : PartialUpdateUser(u, target, r, fn)
    \/ \E u \in Users, target \in Users : DestroyUser(u, target)
    \/ \E u \in Users, new \in Users, r \in {NoRole, "admin", "manager"} :
          RegisterUser(u, new, r)

SpecCashiers == Init /\ [][NextCashiers]_vars

(* the products endpoints alone: every user reads and writes the catalogue *)
NextProducts ==
    \/ \E i \in ProductIds : LoadProduct(i)
    \/ \E u \in Users, q \in {NoValue, 1}, pr \in {NoValue, NewPrice} :
          UpdateProduct(u, q, pr)
    \/ \E u \in Users, i \in ProductIds : DestroyProduct(u, i)
    \/ \E u \in Users, i \in ProductIds, q \in {-1, 1}, pr \in {0, NewPrice} :
          CreateProduct(u, i, q, pr)
    \/ \E u \in Users : low_stock(u)
    \/ \E u \in Users : ListProducts(u)

SpecProducts == Init /\ [][NextProducts]_vars

(* sales requested by an authenticated cashier and by an anonymous caller *)
NextAuth ==
    \E p \in Procs :
        \/ \E u \in {NoValue, NumUsers}, ls \in PlainBodies :
              calls < MaxCalls /\ Start(p, u, NumUsers, ls)
        \/ SaleStep(p)

SpecAuth == Init /\ [][NextAuth]_vars

(* ======================= the claims ======================= *)

Failed(p) == pc[p] = "idle" /\ result[p].kind \notin {"none", "success"}
Succeeded(p) == pc[p] = "idle" /\ result[p].kind = "success"
InCreate(p) == pc[p] \in {"create", "items", "commit"}

(* C1: a createSale call that fails once create has begun leaves no effect.
   The only step of a call that changes the committed rows (product stock,
   prices, sales with their items) is its successful commit: every other step
   of the call, the failing one included, leaves them as they were, so the
   stock of the products of earlier lines is what it was and no Sale or
   SaleItem of the call is persisted. *)
C1_FailedSaleHasNoEffect ==
    [][\A p \in Procs :
          ( /\ InCreate(p)
            /\ (pc'[p] # pc[p] \/ idx'[p] # idx[p])
            /\ ~(pc[p] = "commit" /\ result'[p].kind = "success") )
          => UNCHANGED dbVars]_vars

(* a call failed for insufficient stock in create at its second line, after
   its first line had been processed *)
C1_Witness ==
    \E p \in Procs :
        /\ Failed(p)
        /\ result[p].kind = "insufficient_stock"
        /\ result[p].requested = NoValue
        /\ idx[p] = 2
        /\ sales = <<>>
        /\ \A i \in ProductIds : quantity_in_stock[i] = stock0[i]

RaceDone == \A p \in RaceProcs : pc[p] = "idle" /\ result[p] # NoResponse

(* C2: NumRace concurrent calls, each for one unit of a product with stock
   S < NumRace: when all have completed, exactly S succeeded, exactly
   NumRace - S failed with insufficient stock, and the stock is 0. *)
C2_ExactlyStockManySucceed ==
    RaceDone =>
        /\ Cardinality({p \in RaceProcs : result[p].kind = "success"}) = stock0[1]
        /\ Cardinality({p \in RaceProcs : result[p].kind = "insufficient_stock"})
              = NumRace - stock0[1]
        /\ quantity_in_stock[1] = 0
        /\ Len(sales) = stock0[1]

(* all calls completed, one succeeded and another, which had passed validate,
   failed at the check under the lock *)
C2_Witness ==
    /\ RaceDone
    /\ \E p, q \in RaceProcs :
          /\ result[p].kind = "success"
          /\ result[q].kind = "insufficient_stock"
          /\ result[q].requested = NoValue

(* C3: the stock of every product is >= 0 in every reachable state, committed
   or staged, and an inventory write that is rejected leaves every committed
   row as it was (rejected, not clamped). *)
C3_StockNeverNegative ==
    /\ [](/\ \A i \in products : quantity_in_stock[i] >= 0
          /\ \A p \in Procs, i \in ProductIds :
                txStock[p][i] = NoValue \/ txStock[p][i] >= 0)
    /\ [][(edits' # edits /\ editResult' \in {"insufficient", "not_positive", "invalid"})
             => UNCHANGED dbVars]_vars

(* decrease_stock was refused for insufficient stock on a product whose row
   still holds its non-negative quantity, after a sale had lowered it *)
C3_Witness ==
    /\ editResult = "insufficient"
    /\ instance.id \in products
    /\ quantity_in_stock[instance.id] = instance.quantity_in_stock
    /\ quantity_in_stock[instance.id] < stock0[instance.id]
    /\ Len(sales) > 0

RECURSIVE C4_Sum(_)
C4_Sum(items) ==
    IF items = <<>> THEN 0
    ELSE Head(items).quantity * Head(items).price_at_sale + C4_Sum(Tail(items))

(* C4: the total_amount of every persisted sale is exactly the sum over its
   persisted items of quantity * price_at_sale. *)
C4_TotalIsSumOfItems ==
    \A k \in 1..Len(sales) : sales[k].total_amount = C4_Sum(sales[k].items)

(* a sale of two lines with different prices, one of them with a quantity
   above 1 *)
C4_Witness ==
    \E k \in 1..Len(sales) :
        /\ Len(sales[k].items) = 2
        /\ sales[k].items[1].price_at_sale # sales[k].items[2].price_at_sale
        /\ sales[k].items[2].quantity > 1
        /\ sales[k].total_amount = C4_Sum(sales[k].items)

(* C5: a successful createSale persists exactly one SaleItem per line, with
   the line's product and quantity, and lowers each product's stock by the
   quantities of its lines; with createSale the only writer, the stock of
   each product is its initial stock minus the quantities of all persisted
   SaleItems of that product. *)
C5_StockIsInitialMinusSold ==
    /\ [](\A i \in ProductIds :
             quantity_in_stock[i] = stock0[i] - TotalSold(sales, i))
    /\ [][\A p \in Procs :
             (pc[p] = "commit" /\ result'[p].kind = "success") =>
                LET s == sales'[Len(sales')]
                IN /\ Len(sales') = Len(sales) + 1
                   /\ Len(s.items) = Len(lines[p])
                   /\ \A n \in 1..Len(lines[p]) :
                         /\ s.items[n].product = lines[p][n].product_id
                         /\ s.items[n].quantity = lines[p][n].quantity
                   /\ \A i \in ProductIds :
                         quantity_in_stock'[i] =
                             quantity_in_stock[i] - SoldQuantity(s.items, i)]_vars

(* two sales are persisted, one of them with two lines of the same product *)
C5_Witness ==
    /\ Len(sales) = 2
    /\ \E k \in 1..2 :
          /\ Len(sales[k].items) = 2
          /\ sales[k].items[1].product = sales[k].items[2].product
    /\ \E i \in ProductIds : quantity_in_stock[i] < stock0[i]

(* C6: every Sale, persisted or being created, has the authenticated caller
   of its request as cashier, whatever the cashier field of the body was. *)
C6_CashierIsCaller ==
    \A p \in Procs :
        /\ txSale[p] # NoSale => txSale[p].cashier = caller[p]
        /\ (Succeeded(p) /\ saleOf[p] # 0) => sales[saleOf[p]].cashier = caller[p]

(* a sale was created by a request whose body named another user as cashier *)
C6_Witness ==
    \E p \in Procs :
        /\ Succeeded(p)
        /\ body_cashier[p] \in Users \ {caller[p]}
        /\ sales[saleOf[p]].cashier = caller[p]

(* the filters of a list request *)
Filters ==
    [cashier : {NoValue} \cup Users,
     cashier_username : {<<>>, <<100>>, <<101>>} \cup {<<u>> : u \in Users},
     date : {NoValue} \cup 0..MaxDay,
     start_date : {NoValue, 0},
     end_date : {NoValue},
     min_amount : {NoValue, InitPrice(1)},
     max_amount : {NoValue},
     transaction_id : {<<>>}]

EmptyFilter ==
    [cashier |-> NoValue, cashier_username |-> <<>>, date |-> NoValue,
     start_date |-> NoValue, end_date |-> NoValue, min_amount |-> NoValue,
     max_amount |-> NoValue, transaction_id |-> <<>>]

(* C7: an identity whose role is cashier never observes a Sale of another
   cashier: list under every filter and today return only its own sales, and
   retrieve of another identity's sale answers not-found. *)
C7_CashierSeesOnlyOwnSales ==
    \A u \in Users :
        role[u] = "cashier" =>
            /\ \A f \in Filters : \A k \in list(u, f) : sales[k].cashier = u
            /\ \A k \in today(u) : sales[k].cashier = u
            /\ \A k \in 1..Len(sales) :
                  sales[k].cashier # u => retrieve(u, k) = "not_found"

(* C8: every identity whose role is admin gets all persisted sales from list
   with an empty filter. *)
C8_AdminSeesAllSales ==
    \A u \in Users :
        role[u] = "admin" => list(u, EmptyFilter) = 1..Len(sales)

(* C9: every update, partial update or delete request against an existing
   Sale, by any user, is answered 405 and leaves the Sale rows and their
   items unchanged. *)
C9_SalesAreAppendOnly ==
    [][saleResponse' # saleResponse =>
          /\ saleResponse'.status = MethodNotAllowed
          /\ saleResponse'.sale \in 1..Len(sales)
          /\ sales' = sales]_vars

(* the owner of a persisted sale asked to delete it and got 405; the sale is
   still there *)
C9_Witness ==
    /\ saleResponse.action = "destroy"
    /\ saleResponse.status = MethodNotAllowed
    /\ saleResponse.sale \in 1..Len(sales)
    /\ sales[saleResponse.sale].cashier = saleResponse.user

(* C10: a createSale takes its row locks in ascending product id, whatever the
   order of its lines: whenever it takes a new lock, every lock it already
   holds is on a smaller product id. *)
C10_LocksInAscendingOrder ==
    [][\A p \in Procs, i \in ProductIds :
          (lockOwner[i] # p /\ lockOwner'[i] = p) =>
              \A j \in ProductIds : lockOwner[j] = p => j < i]_vars

(* C11: under fair scheduling of the steps of every request, every createSale
   call that was received eventually completes, with success or with an
   error, also when concurrent sales need the locks of the same products. *)
C11_EveryCallCompletes ==
    \A p \in Procs : (pc[p] # "idle") ~> (pc[p] = "idle")

(* C12: every insufficient-stock failure of createSale, found by validate or
   by the check under the lock in create, reports the product, the quantity
   available and the quantity requested, and the available quantity it
   reports is the stock of the product, which stays what it was. *)
C12_StockErrorNamesBothQuantities ==
    \A p \in Procs :
        (Failed(p) /\ result[p].kind = "insufficient_stock") =>
            /\ result[p].product \in ProductIds
            /\ result[p].available # NoValue
            /\ result[p].requested # NoValue

(* C13: for a line without a price of its own, the price_at_sale of the
   SaleItem is the price of the product at the moment create holds the
   product's lock and writes the item, which is its price when the sale
   commits: a price change committed before the lock is taken is the price
   recorded. *)
C13_PriceIsCurrentPriceUnderLock ==
    [][\A p \in Procs :
          Len(txItems'[p]) > Len(txItems[p]) =>
              LET item == txItems'[p][Len(txItems'[p])]
              IN item.price_at_sale = unit_price[item.product]]_vars

(* C14: a createSale request with no line, with more than 100 lines or with
   a line whose quantity is below 1 never gets past is_valid: the loops of
   validate and create only ever run over 1 to 100 lines of quantity >= 1,
   and receiving a request, accepted or rejected, takes no lock and writes
   no row (stock, Sale and SaleItem rows, committed or staged, are
   unchanged); a request that is not accepted is answered as invalid. *)
C14_InvalidRequestRejectedFirst ==
    /\ [](\A p \in Procs :
             pc[p] # "idle" =>
                 /\ Len(lines[p]) >= 1
                 /\ Len(lines[p]) <= MaxItems
                 /\ \A k \in 1..Len(lines[p]) : lines[p][k].quantity >= MinQuantity)
    /\ [][calls' # calls =>
             /\ UNCHANGED <<dbVars, lockOwner, txVars>>
             /\ \A p \in Procs : pc'[p] # pc[p] => pc'[p] = "validate"
             /\ pc' = pc => \E p \in Procs : result'[p] = Invalid /\ idx'[p] = 0]_vars

(* a request was rejected as invalid while the other request is inside
   create and holds a lock; nothing is persisted *)
C14_Witness ==
    \E p, q \in Procs :
        /\ pc[p] = "idle" /\ result[p] = Invalid /\ idx[p] = 0
        /\ pc[q] = "items"
        /\ \E i \in ProductIds : lockOwner[i] = q
        /\ sales = <<>>
        /\ quantity_in_stock = stock0

(* a committed Sale: it has its items, its total_amount is the sum of their
   subtotals and it is the row of no request still inside create *)
C15_Committed(sale) ==
    /\ Len(sale.items) >= 1
    /\ sale.total_amount = C4_Sum(sale.items)
    /\ \A p \in Procs : txSale[p].transaction_id # sale.transaction_id

(* C15: whatever requests are inside create, every Sale that list, today,
   retrieve or statistics gives to any user is a committed one, with all its
   items and with total_amount equal to the sum of their subtotals;
   statistics counts the committed sales only; and a Sale that can be
   observed is never removed again (it is not one that is rolled back). *)
C15_QueriesSeeCommittedSalesOnly ==
    /\ [](\A u \in Users :
             /\ \A k \in list(u, EmptyFilter) : C15_Committed(sales[k])
             /\ \A k \in today(u) : C15_Committed(sales[k])
             /\ \A k \in 1..Len(sales) :
                   retrieve(u, k) = "ok" => C15_Committed(sales[k])
             /\ \A r \in statistics(u, NoValue) :
                   r.status = "success" =>
                       /\ r.total_sales =
                            Cardinality({k \in 1..Len(sales) : C15_Committed(sales[k])})
                       /\ r.total_items_sold >= r.total_sales)
    /\ [][/\ Len(sales') >= Len(sales)
          /\ SubSeq(sales', 1, Len(sales)) = sales]_vars

(* one sale is committed while another request is at the end of create, its
   Sale row and items written but not committed: list and statistics give
   the committed sale only *)
C15_Witness ==
    \E p \in Procs :
        /\ pc[p] = "commit"
        /\ Len(txItems[p]) >= 1
        /\ Len(sales) = 1
        /\ list(txSale[p].cashier, EmptyFilter) = {1}
        /\ \E r \in statistics(2, NoValue) : r.status = "success" /\ r.total_sales = 1

C16_UpperHex ==
    {"0", "1", "2", "3", "4", "5", "6", "7", "8", "9", "A", "B", "C", "D", "E", "F"}

(* C16: the transaction_id of every persisted Sale is TXN- followed by 12
   upper-case hexadecimal characters, and no two persisted Sales have the
   same transaction_id. *)
C16_TransactionIdsWellFormedAndUnique ==
    /\ \A k \in 1..Len(sales) :
          LET id == TxnText(sales[k].transaction_id)
          IN /\ Len(id) = 16
             /\ SubSeq(id, 1, 4) = <<"T", "X", "N", "-">>
             /\ \A n \in 5..16 : id[n] \in C16_UpperHex
    /\ \A j, k \in 1..Len(sales) :
          j # k => TxnText(sales[j].transaction_id) # TxnText(sales[k].transaction_id)

(* two sales are persisted with different ids, and the id of the first has a
   letter among its hexadecimal characters *)
C16_Witness ==
    /\ Len(sales) = 2
    /\ \E n \in 5..16 :
          TxnText(sales[1].transaction_id)[n] \in {"A", "B", "C", "D", "E", "F"}
    /\ sales[1].transaction_id # sales[2].transaction_id

(* C17: the first time the id generated for a call collides with the id of
   an existing sale, the call is not failed for it (it is to retry with a
   new id): no call at the start of create, which has had no collision yet,
   ends in one step with a duplicate-id error. *)
C17_FirstCollisionIsRetried ==
    [][\A p \in Procs :
          pc[p] = "create" => result'[p].kind # "duplicate_transaction_id"]_vars

(* C18: statistics is served only to identities whose role is admin: a
   request by an identity whose role is cashier is answered with the
   authorization error and carries no aggregate. *)
C18_StatisticsForAdminRoleOnly ==
    (statsResponse.user # NoValue /\ role[statsResponse.user] = "cashier") =>
        /\ statsResponse.status = "error"
        /\ statsResponse.total_sales = NoValue
        /\ statsResponse.total_revenue = NoValue

(* the sales of the last d days, by cashier u or (u = NoValue) by anyone *)
C19_InPeriod(k, d, u) ==
    /\ sales[k].sale_date >= now - d
    /\ u = NoValue \/ sales[k].cashier = u

RECURSIVE C19_Revenue(_, _, _)
C19_Revenue(k, d, u) ==
    IF k = 0 THEN 0
    ELSE (IF C19_InPeriod(k, d, u) THEN sales[k].total_amount ELSE 0)
         + C19_Revenue(k - 1, d, u)

C19_Count(d, u) == Cardinality({k \in 1..Len(sales) : C19_InPeriod(k, d, u)})

RECURSIVE C19_Quantity(_)
C19_Quantity(items) ==
    IF Len(items) = 0 THEN 0
    ELSE items[Len(items)].quantity + C19_Quantity(SubSeq(items, 1, Len(items) - 1))

RECURSIVE C19_Items(_, _)
C19_Items(k, d) ==
    IF k = 0 THEN 0
    ELSE (IF C19_InPeriod(k, d, NoValue) THEN C19_Quantity(sales[k].items) ELSE 0)
         + C19_Items(k - 1, d)

C19_Cashiers(d) == {u \in StatUsers : C19_Count(d, u) > 0}

(* C19: a statistics response that is served gives, for the sales of its
   period: their number, the sum of their total_amount, the sum of the
   quantities of their items, the revenue divided by the number of sales (0
   without sales), and as top_cashiers the min(5, number of cashiers with
   sales) cashiers of highest revenue in descending order of revenue, each
   once, with its own number of sales and revenue. *)
C19_StatisticsValues ==
    statsResponse.status = "success" =>
        LET r == statsResponse
            d == r.period_days
            top == r.top_cashiers
            n == Cardinality(C19_Cashiers(d))
        IN /\ r.total_sales = C19_Count(d, NoValue)
           /\ r.total_revenue = C19_Revenue(Len(sales), d, NoValue)
           /\ r.total_items_sold = C19_Items(Len(sales), d)
           /\ r.average_sale_value.den > 0
           /\ r.average_sale_value.num * (IF r.total_sales = 0 THEN 1 ELSE r.total_sales)
                  = r.total_revenue * r.average_sale_value.den
           /\ Len(top) = (IF n < 5 THEN n ELSE 5)
           /\ \A a, b \in 1..Len(top) :
                 /\ a < b => top[a].total_revenue >= top[b].total_revenue
                 /\ a # b => top[a].cashier__username # top[b].cashier__username
           /\ \A a \in 1..Len(top) :
                 \E u \in C19_Cashiers(d) :
                     /\ top[a].cashier__username = Username(u)
                     /\ top[a].total_sales = C19_Count(d, u)
                     /\ top[a].total_revenue = C19_Revenue(Len(sales), d, u)
           /\ \A u \in C19_Cashiers(d) :
                 \/ \E a \in 1..Len(top) : top[a].cashier__username = Username(u)
                 \/ C19_Revenue(Len(sales), d, u) <= top[Len(top)].total_revenue

(* statistics was served for a period in which six cashiers have sales, some
   sales lying outside the period: five cashiers are reported, the first
   with several sales and more revenue than the last *)
C19_Witness ==
    /\ statsResponse.status = "success"
    /\ Cardinality(C19_Cashiers(statsResponse.period_days)) = 6
    /\ statsResponse.total_sales < Len(sales)
    /\ statsResponse.total_sales > 6
    /\ Len(statsResponse.top_cashiers) = 5
    /\ statsResponse.top_cashiers[1].total_sales > 1
    /\ statsResponse.top_cashiers[1].total_revenue
          > statsResponse.top_cashiers[5].total_revenue

(* C20: every persisted or staged SaleItem belongs to a Sale and refers to
   an existing Product, and every persisted or staged Sale refers to an
   existing user; a delete of a Product that a SaleItem refers to, or of a
   user that a Sale refers to, is refused and leaves the record in place;
   and no step removes a Product or user that is referred to. *)
C20_ReferentialProtection ==
    /\ [](/\ \A k \in 1..Len(sales) :
                /\ sales[k].cashier \in users
                /\ \A n \in 1..Len(sales[k].items) : sales[k].items[n].product \in products
          /\ \A p \in Procs :
                /\ txSale[p] # NoSale => txSale[p].cashier \in users
                /\ txItems[p] # <<>> => txSale[p] # NoSale
                /\ \A n \in 1..Len(txItems[p]) : txItems[p][n].product \in products)
    /\ [][/\ \A i \in products \ products' :
                \A k \in 1..Len(sales) : \A n \in 1..Len(sales[k].items) :
                    sales[k].items[n].product # i
          /\ \A u \in users \ users' :
                \A k \in 1..Len(sales) : sales[k].cashier # u
          /\ (edits' # edits /\ editResult' = "protected") => products' = products
          /\ (edits' # edits /\ userResponse'.status = "protected") => users' = users]_vars

(* an admin asked to delete a product that a sale item refers to and then
   the cashier of that sale: both requests were refused, both records are
   still there; the other product has been deleted *)
C20_Witness ==
    /\ editResult = "protected"
    /\ userResponse.status = "protected"
    /\ userResponse.target \in users
    /\ \E k \in 1..Len(sales) : sales[k].cashier = userResponse.target
    /\ \E k \in 1..Len(sales) : sales[k].items[1].product \in products

(* the step that answers the request of user u on the users endpoints *)
Answered(u) ==
    /\ request_user[u] # "none"
    /\ request_user'[u] = "none"
    /\ userResponse'.user = u

(* C21: an admin can neither demote nor delete the own account: a request
   of a user whose role is admin on the own record leaves the user in place
   with role admin, and when it is refused it leaves the record as it was. *)
C21_AdminKeepsOwnAccount ==
    [][\A u \in Users :
          (Answered(u) /\ userResponse'.target = u /\ u \in users /\ role[u] = "admin") =>
              /\ u \in users'
              /\ role'[u] = "admin"
              /\ userResponse'.status # "deleted"
              /\ userResponse'.status # "saved" =>
                    (role' = role /\ first_name' = first_name /\ users' = users)]_vars

(* an admin asked to delete the own account and was refused; the account is
   still there, with role admin *)
C21_Witness ==
    /\ userResponse.action = "destroy"
    /\ userResponse.status = "own_account"
    /\ userResponse.user = userResponse.target
    /\ userResponse.user \in users
    /\ role[userResponse.user] = "admin"

(* C22: only an admin changes other users' accounts: a request authenticated
   as a cashier that updates another user's profile, deletes a user or
   registers a user is answered forbidden and changes no user record. *)
C22_CashierCannotManageUsers ==
    [][\A u \in Users :
          (/\ Answered(u)
           /\ request_user[u] = "cashier"
           /\ \/ userResponse'.action \in {"destroy", "register"}
              \/ /\ userResponse'.action \in {"update", "partial_update"}
                 /\ userResponse'.target # u
                 /\ userResponse'.target \in users) =>
              /\ userResponse'.status = "forbidden"
              /\ users' = users
              /\ role' = role
              /\ first_name' = first_name
              /\ is_staff' = is_staff
              /\ is_superuser' = is_superuser]_vars

(* a cashier asked to change the profile of another, existing user and was
   answered forbidden *)
C22_Witness ==
    /\ userResponse.action = "update"
    /\ userResponse.status = "forbidden"
    /\ userResponse.target # userResponse.user
    /\ userResponse.target \in users
    /\ userResponse.user \in users
    /\ role[userResponse.user] = "cashier"

(* C23: only an admin writes products or reads the low-stock report: every
   create, update or delete of a product and every low-stock request by a
   cashier is refused and leaves the products as they were, while a
   cashier's read of the products is served. *)
C23_ProductsWrittenByAdminOnly ==
    [][\A u \in Users : role[u] = "cashier" =>
          /\ \A q \in {NoValue, 1}, pr \in {NoValue, NewPrice} :
                UpdateProduct(u, q, pr) =>
                    (editResult' = "forbidden" /\ UNCHANGED dbVars)
          /\ \A i \in ProductIds :
                DestroyProduct(u, i) =>
                    (editResult' = "forbidden" /\ UNCHANGED dbVars)
          /\ \A i \in ProductIds, q \in {-1, 1}, pr \in {0, NewPrice} :
                CreateProduct(u, i, q, pr) =>
                    (editResult' = "forbidden" /\ UNCHANGED dbVars)
          /\ low_stock(u) =>
                (productResponse'.status = "forbidden" /\ UNCHANGED dbVars)
          /\ ListProducts(u) =>
                (/\ productResponse'.status = "ok"
                 /\ productResponse'.products = products
                 /\ UNCHANGED dbVars)]_vars

(* a cashier was refused the low-stock report after a write on the products
   was refused too *)
C23_Witness ==
    /\ productResponse.action = "low_stock"
    /\ productResponse.status = "forbidden"
    /\ productResponse.user \in users
    /\ role[productResponse.user] = "cashier"
    /\ editResult = "forbidden"
    /\ products = ProductIds

(* the stock rows other than that of the loaded instance are as they were *)
C24_OthersUnchanged ==
    /\ products' = products
    /\ \A j \in ProductIds :
          j # instance.id => quantity_in_stock'[j] = quantity_in_stock[j]

(* C24: decrease_stock(q) fails closed: with q <= 0 or q above the quantity
   of the instance it raises and leaves the quantity as it was, otherwise
   the quantity goes down by exactly q; increase_stock(q) raises and leaves
   the quantity as it was when q <= 0, otherwise the quantity goes up by
   exactly q. The row written, when it exists, holds the new quantity. *)
C24_StockMethodsFailClosed ==
    [][/\ \A q \in -1..MaxQty :
            decrease_stock(q) =>
                IF q <= 0 \/ q > instance.quantity_in_stock
                THEN /\ editResult' \in {"not_positive", "insufficient"}
                     /\ instance' = instance
                     /\ quantity_in_stock' = quantity_in_stock
                ELSE /\ instance'.quantity_in_stock = instance.quantity_in_stock - q
                     /\ instance.id \in products =>
                           /\ editResult' = "saved"
                           /\ quantity_in_stock'[instance.id] =
                                 instance.quantity_in_stock - q
                     /\ C24_OthersUnchanged
       /\ \A q \in -1..1 :
            increase_stock(q) =>
                IF q <= 0
                THEN /\ editResult' = "not_positive"
                     /\ instance' = instance
                     /\ quantity_in_stock' = quantity_in_stock
                ELSE /\ instance'.quantity_in_stock = instance.quantity_in_stock + q
                     /\ instance.id \in products =>
                           /\ editResult' = "saved"
                           /\ quantity_in_stock'[instance.id] =
                                 instance.quantity_in_stock + q
                     /\ C24_OthersUnchanged]_vars

(* decrease_stock refused a quantity above the positive quantity of its
   instance, and both the instance and the row kept that quantity *)
C24_Witness ==
    /\ editResult = "insufficient"
    /\ instance # NoInstance
    /\ instance.quantity_in_stock > 0
    /\ instance.id \in products
    /\ quantity_in_stock[instance.id] = instance.quantity_in_stock

(* the rows and locks that the sale engine writes *)
C25_Engine == <<dbVars, lockOwner, txVars>>

(* C25: a createSale request of an unauthenticated caller is refused with an
   authorization error before the engine runs: the step that receives it
   answers it, takes no lock and writes no row, and no request in progress
   has an unauthenticated caller. *)
C25_UnauthenticatedRejectedFirst ==
    /\ [][\A p \in Procs, ls \in PlainBodies :
             Start(p, NoValue, NumUsers, ls) =>
                 /\ result'[p].kind = "not_authenticated"
                 /\ pc'[p] = "idle"
                 /\ UNCHANGED C25_Engine]_vars
    /\ [](\A p \in Procs : pc[p] # "idle" => caller[p] \in users)
    /\ [](\A k \in 1..Len(sales) : sales[k].cashier \in users)

(* an anonymous caller was refused while the other request committed its
   sale *)
C25_Witness ==
    \E p, q \in Procs :
        /\ result[p].kind = "not_authenticated"
        /\ caller[p] \notin users
        /\ result[q].kind = "success"
        /\ Len(sales) = 1

(* C26: a role changes only at the request of an admin: when every request is
   issued by an identity whose role is cashier, no user's role goes from
   cashier to admin. *)
C26_RoleChangeRequiresAdmin ==
    \A u \in users : InitRole(u) = "cashier" => role[u] = "cashier"

(* the quantity that the lines of a body ask of product i *)
RECURSIVE C27_LineSum(_, _)
C27_LineSum(ls, i) ==
    IF ls = <<>> THEN 0
    ELSE (IF Head(ls).product_id = i THEN Head(ls).quantity ELSE 0)
            + C27_LineSum(Tail(ls), i)

(* C27: an order with several lines of one product succeeds if and only if
   the sum of the lines does not exceed the stock of the product: a sale
   that commits asked of every product at most its stock and lowers it by
   the sum, and a sale refused for stock asked of the product more than its
   stock and is aborted with no effect, also when each single line was
   within the stock. *)
C27_LinesOfOneProductAreSummed ==
    [][\A p \in Procs :
          /\ (pc[p] = "commit" /\ result'[p].kind = "success") =>
                \A i \in ProductIds :
                    /\ C27_LineSum(lines[p], i) <= quantity_in_stock[i]
                    /\ quantity_in_stock'[i] =
                          quantity_in_stock[i] - C27_LineSum(lines[p], i)
          /\ (pc[p] \in {"validate", "items"}
                 /\ result'[p].kind = "insufficient_stock") =>
                /\ C27_LineSum(lines[p], result'[p].product)
                      > quantity_in_stock[result'[p].product]
                /\ UNCHANGED dbVars
                /\ txItems'[p] = <<>>
                /\ txStock'[p] = NoTxStock
                /\ \A i \in ProductIds : lockOwner'[i] # p]_vars

(* the only request so far was refused inside create for a line that found
   less than the untouched stock of its product: the earlier lines of the
   same order had taken the rest, and nothing of the order is left *)
C27_Witness ==
    \E p \in Procs :
        /\ calls = 1
        /\ result[p].kind = "insufficient_stock"
        /\ result[p].requested = NoValue
        /\ result[p].available > 0
        /\ result[p].available < stock0[result[p].product]
        /\ sales = <<>>
        /\ quantity_in_stock = stock0
        /\ txItems[p] = <<>>
        /\ \A i \in ProductIds : lockOwner[i] = 0

(* C28: an edit of a product that carries only the price leaves the stock of
   every product as it is, also when a sale of the product commits between
   the moment the edit loads the product and the moment it saves it. *)
C28_PriceEditKeepsStock ==
    [][\A u \in Users :
          (UpdateProduct(u, NoValue, NewPrice) /\ editResult' = "saved") =>
              quantity_in_stock' = quantity_in_stock]_vars

(* C29: with an admin among the users initially, there is an admin among the
   users after any interleaving of user update and delete requests. *)
C29_SomeAdminRemains ==
    \E u \in users : role[u] = "admin"

(* C30: an admin's update of the own profile that has no role field, such as
   a partial update of first_name alone, is accepted: the name is stored and
   the role stays admin. *)
C30_SelfUpdateWithoutRoleAccepted ==
    [][\A u \in Users :
          (/\ role[u] = "admin"
           /\ request_user[u] = "admin"
           /\ PartialUpdateUser(u, u, NoRole, 1)) =>
              /\ userResponse'.status = "saved"
              /\ first_name'[u] = 1
              /\ role'[u] = "admin"]_vars

====
